---------------------------- MODULE Spec2Model ----------------------------
(***************************************************************************)
(* A model of the soy easing library: the unit cubic bezier (bezier.rs),   *)
(* its four preset constants (constants.rs) and the generic blend lerp     *)
(* (lib.rs).                                                               *)
(*                                                                         *)
(* Every number of the program is an f32.  An f32 is modelled bit-exactly  *)
(* as a pair <<m, e>> of integers standing for m * 2^e, in canonical form: *)
(* 2^23 <= |m| < 2^24, or e = EMin and |m| < 2^23 (subnormals and zero).   *)
(* The arithmetic operators round to nearest, ties to even, as IEEE 754    *)
(* binary32 does.  The arithmetic of infinities and NaN is not modelled:   *)
(* the inputs are chosen so that no operation overflows (AllFinite holds   *)
(* of every reachable state).  The sign of zero is not modelled: the       *)
(* program never divides by zero (C7) nor reads the sign of a zero.        *)
(***************************************************************************)
EXTENDS Integers, Sequences, FiniteSets

(***************************************************************************)
(* f32: IEEE 754 binary32                                                  *)
(***************************************************************************)

\* Bits of the significand of an f32 (the hidden bit included).
MantBits == 24

\* Exponent of the least subnormal f32, 2^-149.
EMin == -149

\* Exponent of the unit in the last place of the largest finite f32.
EMax == 104

Abs(n) == IF n < 0 THEN -n ELSE n

Sgn(n) == IF n < 0 THEN -1 ELSE 1

RECURSIVE BitLen(_)
\* Number of binary digits of the natural number n.
BitLen(n) == IF n = 0 THEN 0 ELSE 1 + BitLen(n \div 2)

Zero == <<0, EMin>>

\* The f32 nearest to sgn * (M + f) * 2^E, where 0 < f < 1 if sticky and
\* f = 0 otherwise; ties go to the even significand.  M < 2^31.
RoundNE(sgn, M, E, sticky) ==
  LET L  == BitLen(M)
      e1 == IF E + L - MantBits > EMin THEN E + L - MantBits ELSE EMin
      k  == e1 - E
  IN IF M = 0 THEN Zero
     ELSE IF k <= 0 THEN <<sgn * M * 2^(-k), e1>>
     ELSE IF k > 31 THEN Zero
     ELSE IF k = 31
          THEN IF M > 2^30 \/ (M = 2^30 /\ sticky) THEN <<sgn, e1>> ELSE Zero
     ELSE LET q    == M \div 2^k
              r    == M % 2^k
              half == 2^(k-1)
              up   == r > half \/ (r = half /\ (sticky \/ q % 2 = 1))
              m1   == IF up THEN q + 1 ELSE q
          IN IF m1 = 2^MantBits THEN <<sgn * 2^(MantBits-1), e1 + 1>>
             ELSE IF m1 = 0 THEN Zero
             ELSE <<sgn * m1, e1>>

RECURSIVE Norm(_, _)
\* <<m, e>> with the same value and 2^23 <= m < 2^24 (e may fall below EMin);
\* m > 0.
Norm(m, e) == IF m >= 2^(MantBits-1) THEN <<m, e>> ELSE Norm(2 * m, e - 1)

FNeg(a) == <<-a[1], a[2]>>

FAbs(a) == <<Abs(a[1]), a[2]>>

\* a + b
FAdd(a, b) ==
  IF a[1] = 0 THEN b
  ELSE IF b[1] = 0 THEN a
  ELSE LET hi  == IF a[2] >= b[2] THEN a ELSE b
           lo  == IF a[2] >= b[2] THEN b ELSE a
           d   == hi[2] - lo[2]
           sh  == IF d < 6 THEN d ELSE 6
           k   == d - sh
           H   == hi[1] * 2^sh
           alo == Abs(lo[1])
           slo == Sgn(lo[1])
           q   == IF k > MantBits THEN 0 ELSE alo \div 2^k
           st  == IF k > MantBits THEN TRUE ELSE alo % 2^k # 0
           S   == H + slo * q
           E   == hi[2] - sh
       IN IF ~st THEN RoundNE(Sgn(S), Abs(S), E, FALSE)
          ELSE IF slo = Sgn(H) THEN RoundNE(Sgn(H), Abs(S), E, TRUE)
          ELSE RoundNE(Sgn(H), Abs(H) - q - 1, E, TRUE)

\* a - b
FSub(a, b) == FAdd(a, FNeg(b))

\* a * b
FMul(a, b) ==
  IF a[1] = 0 \/ b[1] = 0 THEN Zero
  ELSE LET na  == Norm(Abs(a[1]), a[2])
           nb  == Norm(Abs(b[1]), b[2])
           ah  == na[1] \div 4096
           al  == na[1] % 4096
           bh  == nb[1] \div 4096
           bl  == nb[1] % 4096
           mid == ah * bl + al * bh
           los == (mid % 4096) * 4096 + al * bl
           hi  == ah * bh + mid \div 4096 + los \div 2^MantBits
           lo  == los % 2^MantBits
       IN RoundNE(Sgn(a[1]) * Sgn(b[1]), hi * 64 + lo \div 2^18,
                  na[2] + nb[2] + 18, lo % 2^18 # 0)

\* a / b.  A quotient by zero is an infinity; it is kept as 2^128, the
\* least power of two beyond the finite f32s.
FDiv(a, b) ==
  IF a[1] = 0 THEN Zero
  ELSE IF b[1] = 0 THEN <<Sgn(a[1]) * 2^(MantBits-1), EMax + 1>>
  ELSE LET na == Norm(Abs(a[1]), a[2])
           nb == Norm(Abs(b[1]), b[2])
           d  == nb[1]
           q0 == na[1] \div d
           r0 == na[1] % d
           q1 == (r0 * 64) \div d
           r1 == (r0 * 64) % d
           q2 == (r1 * 64) \div d
           r2 == (r1 * 64) % d
           q3 == (r2 * 64) \div d
           r3 == (r2 * 64) % d
           q4 == (r3 * 64) \div d
           r4 == (r3 * 64) % d
           q5 == (r4 * 4) \div d
           r5 == (r4 * 4) % d
           Q  == ((((q0 * 64 + q1) * 64 + q2) * 64 + q3) * 64 + q4) * 4 + q5
       IN RoundNE(Sgn(a[1]) * Sgn(b[1]), Q, na[2] - nb[2] - 26, r5 # 0)

\* a < b
FLt(a, b) ==
  IF a[1] < 0 /\ b[1] >= 0 THEN TRUE
  ELSE IF a[1] >= 0 /\ b[1] < 0 THEN FALSE
  ELSE IF a[1] >= 0 THEN a[2] < b[2] \/ (a[2] = b[2] /\ a[1] < b[1])
  ELSE b[2] < a[2] \/ (a[2] = b[2] /\ a[1] < b[1])

\* a <= b
FLe(a, b) == a = b \/ FLt(a, b)

\* The f32 of the integer n, |n| < 2^31.
FromInt(n) == RoundNE(Sgn(n), Abs(n), 0, FALSE)

\* The f32 of the decimal literal n/d: the f32 nearest to the quotient.
Lit(n, d) == FDiv(FromInt(n), FromInt(d))

One == FromInt(1)

Two == FromInt(2)

Three == FromInt(3)

(***************************************************************************)
(* bezier.rs                                                               *)
(***************************************************************************)

\* const NEWTON_ITERATIONS: usize = 8
NEWTON_ITERATIONS == 8

\* const EPSILON: f32 = 1.0 / 200.0
EPSILON == FDiv(One, FromInt(200))

\* The literal 1.0e-6 of solve_x.
SINGULAR == Lit(1, 1000000)

\* approx_eq without the abs: (a - b) < epsilon.
approx_eq_NoAbs(a, b, epsilon) == FLt(FSub(a, b), epsilon)

\* fn approx_eq(a, b, epsilon): (a - b).abs() < epsilon
approx_eq(a, b, epsilon) == FLt(FAbs(FSub(a, b)), epsilon)

\* Bezier::new with a sign slip in ax and ay: 1.0 - c + b.
BezierNewSignSlip(x1, y1, x2, y2) ==
  LET cx == FMul(Three, x1)
      bx == FSub(FMul(Three, FSub(x2, x1)), cx)
      ax == FAdd(FSub(One, cx), bx)
      cy == FMul(Three, y1)
      by == FSub(FMul(Three, FSub(y2, y1)), cy)
      ay == FAdd(FSub(One, cy), by)
  IN [x |-> <<ax, bx, cx>>, y |-> <<ay, by, cy>>]

\* Bezier::new: the coefficient triples of x and y, each <<a, b, c>>.
BezierNew(x1, y1, x2, y2) ==
  LET cx == FMul(Three, x1)
      bx == FSub(FMul(Three, FSub(x2, x1)), cx)
      ax == FSub(FSub(One, cx), bx)
      cy == FMul(Three, y1)
      by == FSub(FMul(Three, FSub(y2, y1)), cy)
      ay == FSub(FSub(One, cy), by)
  IN [x |-> <<ax, bx, cx>>, y |-> <<ay, by, cy>>]

\* The cubic ((a * t + b) * t + c) * t of a coefficient triple.
Horner(k, t) == FMul(FAdd(FMul(FAdd(FMul(k[1], t), k[2]), t), k[3]), t)

\* Bezier::sample_x
sample_x(self, t) == Horner(self.x, t)

\* Bezier::sample_y
sample_y(self, t) == Horner(self.y, t)

\* Bezier::sample_derivative_x: (3.0 * a * t + 2.0 * b) * t + c
sample_derivative_x(self, t) ==
  LET a == self.x[1]
      b == self.x[2]
      c == self.x[3]
  IN FAdd(FMul(FAdd(FMul(FMul(Three, a), t), FMul(Two, b)), t), c)

\* The midpoint taken from the wrong end: (high - low) / 2.0 + high.
MidpointFromHigh(lo, hi) == FAdd(FDiv(FSub(hi, lo), Two), hi)

\* The midpoint of the bisection: (high - low) / 2.0 + low
Midpoint(lo, hi) == FAdd(FDiv(FSub(hi, lo), Two), lo)

(***************************************************************************)
(* constants.rs                                                            *)
(***************************************************************************)

EASE == [x |-> <<One, Lit(-75, 100), Lit(75, 100)>>,
         y |-> <<Lit(-17, 10), Lit(24, 10), Lit(3, 10)>>]

EASE_IN == [x |-> <<Lit(-74, 100), Lit(48, 100), Lit(126, 100)>>,
            y |-> <<FromInt(-2), Three, Zero>>]

\* EASE_OUT with two digits of bx swapped: 1.47 for 1.74.
EASE_OUT_Typo == [x |-> <<Lit(-74, 100), Lit(147, 100), Zero>>,
                  y |-> <<FromInt(-2), Three, Zero>>]

EASE_OUT == [x |-> <<Lit(-74, 100), Lit(174, 100), Zero>>,
             y |-> <<FromInt(-2), Three, Zero>>]

EASE_IN_OUT == [x |-> <<Lit(52, 100), Lit(-78, 100), Lit(126, 100)>>,
                y |-> <<FromInt(-2), Three, Zero>>]

PresetNames == {"EASE", "EASE_IN", "EASE_OUT", "EASE_IN_OUT"}

\* The preset constant of a name.
Preset(name) ==
  CASE name = "EASE" -> EASE
    [] name = "EASE_IN" -> EASE_IN
    [] name = "EASE_OUT" -> EASE_OUT
    [] name = "EASE_IN_OUT" -> EASE_IN_OUT

(***************************************************************************)
(* lib.rs                                                                  *)
(***************************************************************************)

\* lerp that starts the blend at end: end + (end - start) * c.
lerpFromEnd(c, start, end) == FAdd(end, FMul(FSub(end, start), c))

\* lerp, given the value c of tweener.calculate(t):
\* start + (end - start) * tweener.calculate(t)
lerp(c, start, end) == FAdd(start, FMul(FSub(end, start), c))

\* Linear::calculate: the identity timing function.
LinearCalculate(t) == t

(***************************************************************************)
(* The inputs                                                              *)
(***************************************************************************)

\* The targets reach MaxOut units below 0 and above 1.
MaxOut == 1

\* The control points of the grid are the halves 0/2 .. MaxGrid/2.
MaxGrid == 2

\* The times passed to calculate: the sixteenths from -MaxOut to 1 + MaxOut.
Targets == {Lit(k, 16) : k \in (-16 * MaxOut) .. (16 + 16 * MaxOut)}

\* The control points <<x1, y1, x2, y2>> of the CSS timing functions that
\* the presets stand for.
CssPoints(name) ==
  CASE name = "EASE" -> <<Lit(25, 100), Lit(1, 10), Lit(25, 100), One>>
    [] name = "EASE_IN" -> <<Lit(42, 100), Zero, One, One>>
    [] name = "EASE_OUT" -> <<Zero, Zero, Lit(58, 100), One>>
    [] name = "EASE_IN_OUT" -> <<Lit(42, 100), Zero, Lit(58, 100), One>>

\* Control points on a grid of the unit square.
GridPoints ==
  {<<Lit(i, 2), Zero, Lit(j, 2), One>> : i, j \in 0 .. MaxGrid}

\* Control points outside the unit square: a curve with a flat tangent at
\* t = 0.5, a steep non-monotonic curve, and a curve whose coefficients are
\* too large for the term 1.0 to survive the rounding.
WildPoints ==
  { <<Lit(12, 10), Zero, Lit(2, 10), One>>,
    <<FromInt(-65536), Zero, FromInt(65536), One>>,
    <<FromInt(16777216), FromInt(16777216),
      FromInt(-16777216), FromInt(-16777216)>> }

ControlPoints == GridPoints \cup WildPoints

\* The pairs <<start, end>> blended by lerp.
Endpoints == {<<FromInt(5), FromInt(10)>>, <<FromInt(10), FromInt(-3)>>}

\* The loop state <<low, high, t>> after an iteration of the bisection loop
\* that does not return.
BisectStep(self, target, lo, hi, tm) ==
  LET nlo == IF FLt(sample_x(self, tm), target) THEN tm ELSE lo
      nhi == IF FLt(sample_x(self, tm), target) THEN hi ELSE tm
  IN <<nlo, nhi, Midpoint(nlo, nhi)>>

(***************************************************************************)
(* The state                                                               *)
(***************************************************************************)

VARIABLES
  pc,       \* the place of the program
  tweener,  \* "Linear", "cubic_bezier" or the name of a preset
  cp,       \* the control points <<x1, y1, x2, y2>> of the curve
  curve,    \* the Bezier: [x |-> <<ax, bx, cx>>, y |-> <<ay, by, cy>>]
  start,    \* lerp's start (set when lerp blends)
  end,      \* lerp's end (set when lerp blends)
  x,        \* the time: lerp's t, calculate's t, solve_x's x
  i,        \* the Newton iterations completed
  t,        \* solve_x's first t (Newton's method)
  x2,       \* the last sample_x of a loop
  dx,       \* the last sample_derivative_x of the Newton loop
  low,      \* bisection
  high,     \* bisection
  tBis,     \* solve_x's second t (bisection)
  ret,      \* the return statement solve_x left by
  p,        \* the value solve_x returned
  y,        \* the value calculate returned
  out       \* the value lerp returned

vars == <<pc, tweener, cp, curve, start, end, x, i, t, x2, dx, low, high,
          tBis, ret, p, y, out>>

NoCurve == [x |-> <<Zero, Zero, Zero>>, y |-> <<Zero, Zero, Zero>>]

Init ==
  /\ pc = "new"
  /\ \/ /\ tweener = "Linear"
        /\ cp = <<Zero, Zero, Zero, Zero>>
     \/ /\ tweener \in PresetNames
        /\ cp = CssPoints(tweener)
     \/ /\ tweener = "cubic_bezier"
        /\ cp \in ControlPoints
  /\ curve = NoCurve
  /\ start = Zero /\ end = Zero
  /\ x \in Targets
  /\ i = 0
  /\ t = Zero /\ x2 = Zero /\ dx = Zero
  /\ low = Zero /\ high = Zero /\ tBis = Zero
  /\ ret = "none"
  /\ p = Zero /\ y = Zero /\ out = Zero

\* The tweener is built: Bezier::new for cubic_bezier, the constant for a
\* preset; Linear has no fields.
Construct ==
  /\ pc = "new"
  /\ curve' = IF tweener = "cubic_bezier"
              THEN BezierNew(cp[1], cp[2], cp[3], cp[4])
              ELSE IF tweener \in PresetNames THEN Preset(tweener)
              ELSE curve
  /\ pc' = "calculate"
  /\ UNCHANGED <<tweener, cp, start, end, x, i, t, x2, dx, low, high, tBis,
                 ret, p, y, out>>

\* Linear::calculate
CalculateLinear ==
  /\ pc = "calculate"
  /\ tweener = "Linear"
  /\ y' = LinearCalculate(x)
  /\ pc' = "lerp"
  /\ UNCHANGED <<tweener, cp, curve, start, end, x, i, t, x2, dx, low, high,
                 tBis, ret, p, out>>

\* Bezier::calculate calls solve_x: let mut t = x, and the loop starts.
SolveEnter ==
  /\ pc = "calculate"
  /\ tweener # "Linear"
  /\ t' = x
  /\ i' = 0
  /\ pc' = "newton"
  /\ UNCHANGED <<tweener, cp, curve, start, end, x, x2, dx, low, high, tBis,
                 ret, p, y, out>>

\* An iteration of the Newton loop that returns: approx_eq(x2, x, EPSILON).
NewtonReturn ==
  /\ pc = "newton"
  /\ i < NEWTON_ITERATIONS
  /\ x2' = sample_x(curve, t)
  /\ approx_eq(x2', x, EPSILON)
  /\ p' = t
  /\ ret' = "newton"
  /\ pc' = "sample_y"
  /\ UNCHANGED <<tweener, cp, curve, start, end, x, i, t, dx, low, high,
                 tBis, y, out>>

\* An iteration of the Newton loop that breaks: approx_eq(dx, 0.0, 1.0e-6).
NewtonBreak ==
  /\ pc = "newton"
  /\ i < NEWTON_ITERATIONS
  /\ x2' = sample_x(curve, t)
  /\ ~approx_eq(x2', x, EPSILON)
  /\ dx' = sample_derivative_x(curve, t)
  /\ approx_eq(dx', Zero, SINGULAR)
  /\ pc' = "fallback"
  /\ UNCHANGED <<tweener, cp, curve, start, end, x, i, t, low, high, tBis,
                 ret, p, y, out>>

\* The Newton update without the check of the derivative.
NewtonUpdateUnguarded ==
  /\ pc = "newton"
  /\ i < NEWTON_ITERATIONS
  /\ x2' = sample_x(curve, t)
  /\ ~approx_eq(x2', x, EPSILON)
  /\ dx' = sample_derivative_x(curve, t)
  /\ t' = FSub(t, FDiv(FSub(x2', x), dx'))
  /\ i' = i + 1
  /\ UNCHANGED <<pc, tweener, cp, curve, start, end, x, low, high, tBis, ret,
                 p, y, out>>

\* An iteration of the Newton loop that updates t: t -= (x2 - x) / dx.
NewtonUpdate ==
  /\ pc = "newton"
  /\ i < NEWTON_ITERATIONS
  /\ x2' = sample_x(curve, t)
  /\ ~approx_eq(x2', x, EPSILON)
  /\ dx' = sample_derivative_x(curve, t)
  /\ ~approx_eq(dx', Zero, SINGULAR)
  /\ t' = FSub(t, FDiv(FSub(x2', x), dx'))
  /\ i' = i + 1
  /\ UNCHANGED <<pc, tweener, cp, curve, start, end, x, low, high, tBis, ret,
                 p, y, out>>

\* The Newton loop ends after NEWTON_ITERATIONS iterations.
NewtonExhausted ==
  /\ pc = "newton"
  /\ i = NEWTON_ITERATIONS
  /\ pc' = "fallback"
  /\ UNCHANGED <<tweener, cp, curve, start, end, x, i, t, x2, dx, low, high,
                 tBis, ret, p, y, out>>

\* The bisection started from the t that Newton's method left.
BisectInitKeepsT ==
  /\ pc = "fallback"
  /\ low' = Zero
  /\ high' = One
  /\ tBis' = t
  /\ pc' = "clamp"
  /\ UNCHANGED <<tweener, cp, curve, start, end, x, i, t, x2, dx, ret, p, y,
                 out>>

\* let (mut low, mut high, mut t) = (0.0, 1.0, x)
BisectInit ==
  /\ pc = "fallback"
  /\ low' = Zero
  /\ high' = One
  /\ tBis' = x
  /\ pc' = "clamp"
  /\ UNCHANGED <<tweener, cp, curve, start, end, x, i, t, x2, dx, ret, p, y,
                 out>>

\* The low clamp returning t instead of low.
ClampLowKeepsT ==
  /\ pc = "clamp"
  /\ FLt(tBis, low)
  /\ p' = tBis
  /\ ret' = "clamp_low"
  /\ pc' = "sample_y"
  /\ UNCHANGED <<tweener, cp, curve, start, end, x, i, t, x2, dx, low, high,
                 tBis, y, out>>

\* if t < low { return low }
ClampLow ==
  /\ pc = "clamp"
  /\ FLt(tBis, low)
  /\ p' = low
  /\ ret' = "clamp_low"
  /\ pc' = "sample_y"
  /\ UNCHANGED <<tweener, cp, curve, start, end, x, i, t, x2, dx, low, high,
                 tBis, y, out>>

\* if t > high { return high }
ClampHigh ==
  /\ pc = "clamp"
  /\ ~FLt(tBis, low)
  /\ FLt(high, tBis)
  /\ p' = high
  /\ ret' = "clamp_high"
  /\ pc' = "sample_y"
  /\ UNCHANGED <<tweener, cp, curve, start, end, x, i, t, x2, dx, low, high,
                 tBis, y, out>>

\* Neither clamp applies: the bisection loop is next.
ClampPass ==
  /\ pc = "clamp"
  /\ ~FLt(tBis, low)
  /\ ~FLt(high, tBis)
  /\ pc' = "bisect"
  /\ UNCHANGED <<tweener, cp, curve, start, end, x, i, t, x2, dx, low, high,
                 tBis, ret, p, y, out>>

\* An iteration of the bisection loop that returns.
BisectReturn ==
  /\ pc = "bisect"
  /\ FLt(low, high)
  /\ x2' = sample_x(curve, tBis)
  /\ approx_eq(x2', x, EPSILON)
  /\ p' = tBis
  /\ ret' = "bisect"
  /\ pc' = "sample_y"
  /\ UNCHANGED <<tweener, cp, curve, start, end, x, i, t, dx, low, high,
                 tBis, y, out>>

\* An iteration of the bisection loop that narrows the interval.
BisectNarrow ==
  /\ pc = "bisect"
  /\ FLt(low, high)
  /\ x2' = sample_x(curve, tBis)
  /\ ~approx_eq(x2', x, EPSILON)
  /\ LET s == BisectStep(curve, x, low, high, tBis)
     IN low' = s[1] /\ high' = s[2] /\ tBis' = s[3]
  /\ UNCHANGED <<pc, tweener, cp, curve, start, end, x, i, t, dx, ret, p, y,
                 out>>

\* The bisection loop ends with low >= high: the fallback on failure.
BisectExit ==
  /\ pc = "bisect"
  /\ ~FLt(low, high)
  /\ p' = tBis
  /\ ret' = "fallback"
  /\ pc' = "sample_y"
  /\ UNCHANGED <<tweener, cp, curve, start, end, x, i, t, x2, dx, low, high,
                 tBis, y, out>>

\* Bezier::calculate: self.sample_y(self.solve_x(t))
SampleY ==
  /\ pc = "sample_y"
  /\ y' = sample_y(curve, p)
  /\ pc' = "lerp"
  /\ UNCHANGED <<tweener, cp, curve, start, end, x, i, t, x2, dx, low, high,
                 tBis, ret, p, out>>

\* lerp(tweener, start, end, x), once tweener.calculate(x) has returned y.
Lerp ==
  /\ pc = "lerp"
  /\ \E ep \in Endpoints :
       /\ start' = ep[1]
       /\ end' = ep[2]
       /\ out' = lerp(y, ep[1], ep[2])
  /\ pc' = "done"
  /\ UNCHANGED <<tweener, cp, curve, x, i, t, x2, dx, low, high, tBis, ret,
                 p, y>>

Next ==
  \/ Construct
  \/ CalculateLinear
  \/ SolveEnter
  \/ NewtonReturn
  \/ NewtonBreak
  \/ NewtonUpdate
  \/ NewtonExhausted
  \/ BisectInit
  \/ ClampLow
  \/ ClampHigh
  \/ ClampPass
  \/ BisectReturn
  \/ BisectNarrow
  \/ BisectExit
  \/ SampleY
  \/ Lerp

Spec == Init /\ [][Next]_vars

\* Every number of the state is a finite f32 in canonical form.
Finite(f) ==
  /\ EMin <= f[2] /\ f[2] <= EMax
  /\ Abs(f[1]) < 2^MantBits
  /\ (f[2] > EMin => Abs(f[1]) >= 2^(MantBits-1))

AllFinite ==
  \A f \in {x, t, x2, dx, low, high, tBis, p, y, out, start, end} : Finite(f)

(***************************************************************************)
(* The claims                                                              *)
(***************************************************************************)

\* 0 <= f <= 1
InUnit(f) == FLe(Zero, f) /\ FLe(f, One)

\* |a - b| < EPSILON
Within(a, b) == FLt(FAbs(FSub(a, b)), EPSILON)

\* The x polynomial of the curve is monotonic on [0,1]: both x control
\* points lie in [0,1].
Monotonic == tweener # "Linear" /\ InUnit(cp[1]) /\ InUnit(cp[3])

\* solve_x has returned.
Returned == ret # "none"

\* C1: solve_x terminates for every curve and every target: the Newton loop
\* ends after at most 8 iterations, and an iteration of the bisection loop
\* that does not return changes the loop state <<low, high, t>>, so that the
\* loop, which is deterministic, cannot go on forever.
C1_Terminates ==
  /\ i <= NEWTON_ITERATIONS
  /\ (pc = "bisect" /\ FLt(low, high) /\ ~Within(sample_x(curve, tBis), x))
       => BisectStep(curve, x, low, high, tBis) # <<low, high, tBis>>

\* C2: whatever the return path (Newton return, clamp, bisection return,
\* fallback), whatever the curve and the target, the parameter returned by
\* solve_x lies in [0,1].
C2_ResultInUnit == Returned => InUnit(p)

\* The returns of the bisection phase (clamp, bisection return, fallback)
\* are in [0,1]; a Newton return is only known to pass the check
\* |sample_x(p) - x| < EPSILON.
BisectionResultInUnit ==
  /\ ret \in {"clamp_low", "clamp_high", "bisect", "fallback"} => InUnit(p)
  /\ ret = "newton" => Within(sample_x(curve, p), x)

\* C3: for a curve monotonic in x and a target in [0,1], the parameter p
\* returned by solve_x satisfies |sample_x(p) - x| < EPSILON, whichever
\* return path produced it.
C3_MonotonicAccurate ==
  (Monotonic /\ InUnit(x) /\ Returned) => Within(sample_x(curve, p), x)

\* The bisection loop has returned for a monotonic curve and a target in
\* [0,1].
C3_Witness == Monotonic /\ InUnit(x) /\ ret = "bisect"

\* The coefficients a + b + c of a triple, summed as the cubic sums them
\* at t = 1.
SumAtOne(k) == FAdd(FAdd(k[1], k[2]), k[3])

\* Every control point is of magnitude 16 at most.
SmallPoints == \A n \in 1..4 : FLe(FAbs(cp[n]), FromInt(16))

Derived == BezierNew(cp[1], cp[2], cp[3], cp[4])

\* C5 as claimed: each preset constant holds exactly the coefficients that
\* Bezier::new derives from the CSS control points, and its coefficients sum
\* to 1.
C5_PresetsExact ==
  (tweener \in PresetNames /\ pc # "new") =>
    /\ curve = Derived
    /\ SumAtOne(curve.x) = One
    /\ SumAtOne(curve.y) = One

\* C5 as amended: each coefficient of a preset constant is within 2^-21 of
\* the one Bezier::new derives in f32 from the CSS control points, and equal
\* to it for EASE_OUT and EASE_IN_OUT; (a + b) + c is 1 for every preset.
C5_PresetsRounded ==
  (tweener \in PresetNames /\ pc # "new") =>
    /\ \A n \in 1..3 :
         /\ FLt(FAbs(FSub(curve.x[n], Derived.x[n])), <<2^23, -44>>)
         /\ FLt(FAbs(FSub(curve.y[n], Derived.y[n])), <<2^23, -44>>)
    /\ tweener \in {"EASE_OUT", "EASE_IN_OUT"} => curve = Derived
    /\ SumAtOne(curve.x) = One
    /\ SumAtOne(curve.y) = One

\* The constant EASE is in place and differs from the derived coefficients.
C5_Witness == tweener = "EASE" /\ pc = "done" /\ curve # Derived

\* The integer 16 * f of an f32 that is a multiple of 1/16 (2^30 otherwise).
Sixteenths(f) ==
  IF f[1] = 0 THEN 0
  ELSE IF f[2] + 4 >= 0 THEN f[1] * 2^(f[2] + 4)
  ELSE IF f[2] + 4 < -30 \/ f[1] % 2^(-(f[2] + 4)) # 0 THEN 2^30
  ELSE f[1] \div 2^(-(f[2] + 4))

\* C6: lerp returns start + (end - start) * calculate(t): with Linear, whose
\* calculate is the identity, that is the exact affine blend, start at t = 0
\* and end at t = 1, 6.25 for lerp(Linear, 5, 10, 0.25) and 7.5 for
\* lerp(Linear, 5, 10, 0.5); with any tweener it is start when calculate
\* returns 0 and end when it returns 1.
C6_LerpBlend ==
  pc = "done" =>
    /\ tweener = "Linear" =>
         /\ y = x
         /\ 16 * Sixteenths(out) =
              16 * Sixteenths(start)
                + (Sixteenths(end) - Sixteenths(start)) * Sixteenths(x)
         /\ x = Zero => out = start
         /\ x = One => out = end
         /\ (start = FromInt(5) /\ end = FromInt(10) /\ x = Lit(1, 4))
              => out = Lit(625, 100)
         /\ (start = FromInt(5) /\ end = FromInt(10) /\ x = Lit(1, 2))
              => out = Lit(75, 10)
    /\ y = Zero => out = start
    /\ y = One => out = end

\* lerp(Linear, 5.0, 10.0, 0.25) has returned 6.25.
C6_Witness ==
  /\ pc = "done" /\ tweener = "Linear"
  /\ start = FromInt(5) /\ end = FromInt(10) /\ x = Lit(1, 4)
  /\ out = Lit(625, 100)

\* C7: the Newton update t := t - (x2 - x) / dx is executed only when
\* |dx| >= 1e-6; when the check of x2 fails and |dx| < 1e-6 at the current
\* t, the loop is left for the bisection phase with t untouched.
C7_NoSingularDivision ==
  [][ /\ (pc = "newton" /\ i' = i + 1) => ~FLt(FAbs(dx'), SINGULAR)
      /\ ( /\ pc = "newton" /\ i < NEWTON_ITERATIONS
           /\ ~Within(sample_x(curve, t), x)
           /\ FLt(FAbs(sample_derivative_x(curve, t)), SINGULAR) )
         => (pc' = "fallback" /\ t' = t /\ i' = i) ]_vars

\* The Newton loop was left at a derivative that is tiny and not zero.
C7_Witness ==
  /\ pc = "fallback" /\ i < NEWTON_ITERATIONS
  /\ dx # Zero /\ FLt(FAbs(dx), SINGULAR)

\* C8: when the Newton phase ends without returning, the bisection phase
\* starts from low = 0, high = 1 and t = x, whatever t Newton's method left.
C8_BisectionRestarts ==
  pc = "clamp" => (low = Zero /\ high = One /\ tBis = x)

\* The bisection phase starts after 8 Newton iterations that moved t away
\* from x.
C8_Witness == pc = "clamp" /\ i = NEWTON_ITERATIONS /\ t # x

\* C9: entered with x < 0 the bisection phase returns 0.0, entered with
\* x > 1 it returns 1.0, in both cases without a sample_x and without
\* entering the loop; entered with x in [0,1] it enters the loop.
C9_Clamp ==
  [][ pc = "clamp" =>
        /\ FLt(x, Zero) =>
             /\ ret' = "clamp_low" /\ p' = Zero
             /\ pc' = "sample_y" /\ x2' = x2
        /\ FLt(One, x) =>
             /\ ret' = "clamp_high" /\ p' = One
             /\ pc' = "sample_y" /\ x2' = x2
        /\ InUnit(x) =>
             /\ pc' = "bisect" /\ ret' = "none"
             /\ FLt(low', high') ]_vars

\* The low clamp has returned 0.0 for a negative target.
C9_Witness == ret = "clamp_low" /\ p = Zero /\ FLt(x, Zero)

\* 0 <= low <= t <= high <= 1
LoopInv ==
  /\ FLe(Zero, low) /\ FLe(low, tBis) /\ FLe(tBis, high) /\ FLe(high, One)

\* The step is an iteration of the bisection loop that does not return.
Narrowing == pc = "bisect" /\ pc' = "bisect" /\ x2' = sample_x(curve, tBis)

\* The iteration sets exactly one of low and high to t: low when the target
\* is above sample_x(t), high otherwise; low does not decrease and high does
\* not increase.
OneBound ==
  /\ FLt(sample_x(curve, tBis), x) => (low' = tBis /\ high' = high)
  /\ ~FLt(sample_x(curve, tBis), x) => (high' = tBis /\ low' = low)
  /\ FLe(low, low') /\ FLe(high', high)

=============================================================================
